---- MODULE Spec2Model ----
(***************************************************************************)
(* Model of objfile/scanner.go: the wildcard byte-pattern scanner          *)
(* (findPattern), the three architecture signatures and the three          *)
(* resolvers run by findModuleInitPCHeader.                                *)
(*                                                                         *)
(* Representation.                                                         *)
(*   byte      a number in 0..255                                          *)
(*   []byte    a sequence of bytes; Go index k is TLA+ index k+1           *)
(*   uint64    a tuple of four 16-bit limbs, least significant first       *)
(*             (TLC's integers are 32 bits wide, so a 64-bit value is      *)
(*             kept limb by limb and added with carry, modulo 2^64)        *)
(*   pattern   the signature text as its ASCII codes, as Go's []byte("..") *)
(*   SignatureMatch   a record [moduleDataVA |-> uint64]                   *)
(* A Go run-time panic (index or slice out of range) is the value          *)
(* panic |-> TRUE carried by every result; capacity is taken equal to      *)
(* length, so a slice past the end of the buffer is a panic.               *)
(***************************************************************************)
EXTENDS Integers, Sequences, FiniteSets, TLC

VARIABLES data, sectionBase, signature, cb, phase, i, local, inner, matches, calls

vars == <<data, sectionBase, signature, cb, phase, i, local, inner, matches, calls>>

----------------------------------------------------------------------------
(* Machine arithmetic *)

Limb == 2 ^ 16

\* a small natural number (below 2^31) as a uint64
U64(n) == <<n % Limb, n \div Limb, 0, 0>>

\* uint64 addition, wrapping modulo 2^64
Add64(a, b) ==
  LET s0 == a[1] + b[1]
      s1 == a[2] + b[2] + (s0 \div Limb)
      s2 == a[3] + b[3] + (s1 \div Limb)
      s3 == a[4] + b[4] + (s2 \div Limb)
  IN  <<s0 % Limb, s1 % Limb, s2 % Limb, s3 % Limb>>

\* int64 << 16 (the top limb is shifted out)
Shl16(a) == <<0, a[1], a[2], a[3]>>

\* bit k (0 = least significant) of a byte
Bit(x, k) == (x \div (2 ^ k)) % 2

\* x & y and x | y on bytes
BitAnd(x, y) ==
  LET b(k) == Bit(x, k) * Bit(y, k)
  IN  b(0) + 2*b(1) + 4*b(2) + 8*b(3) + 16*b(4) + 32*b(5) + 64*b(6) + 128*b(7)

BitOr(x, y) ==
  LET b(k) == IF Bit(x, k) + Bit(y, k) > 0 THEN 1 ELSE 0
  IN  b(0) + 2*b(1) + 4*b(2) + 8*b(3) + 16*b(4) + 32*b(5) + 64*b(6) + 128*b(7)

\* Go's data[k] for a 0-based k known to be in range
At(s, k) == s[k + 1]

\* Go's s[from:] for from <= len(s)
SliceFrom(s, from) == SubSeq(s, from + 1, Len(s))

\* binary.LittleEndian.Uint32(b) widened by uint64(...): zero-extended
LittleEndianUint32(b) == <<b[1] + 256 * b[2], b[3] + 256 * b[4], 0, 0>>

\* binary.BigEndian.Uint16(b)
BigEndianUint16(b) == 256 * b[1] + b[2]

\* int64(u) of a uint16 u: zero-extended
Int64OfUint16(u) == <<u, 0, 0, 0>>

\* int64(int16(u)) of a uint16 u: sign-extended
Int64OfInt16(u) == IF u >= 32768 THEN <<u, 65535, 65535, 65535>> ELSE <<u, 0, 0, 0>>

----------------------------------------------------------------------------
(* The signatures (scanner.go lines 35, 46, 54), as ASCII codes *)

\* "48 8D 0? ?? ?? ?? ?? EB ?? 48 8? 8? ?? 02 00 00 66 0F 1F 44 00 00"
x64sig == [
  moduleDataPtrLoc |-> 3,
  moduleDataPtrOffsetLoc |-> 7,
  signature |-> <<52, 56, 32, 56, 68, 32, 48, 63, 32, 63, 63, 32, 63, 63, 32,
                  63, 63, 32, 63, 63, 32, 69, 66, 32, 63, 63, 32, 52, 56, 32,
                  56, 63, 32, 56, 63, 32, 63, 63, 32, 48, 50, 32, 48, 48, 32,
                  48, 48, 32, 54, 54, 32, 48, 70, 32, 49, 70, 32, 52, 52, 32,
                  48, 48, 32, 48, 48>> ]

\* "8D ?? ?? ?? ?? ?? EB 1A", 50, "8B ?? ?? ?? ?? ?? 8B ?? 24 20 85 ?? 75 E2"
x86sig == [
  moduleDataPtrLoc |-> 2,
  moduleDataSignature |-> <<56, 68, 32, 63, 63, 32, 63, 63, 32, 63, 63, 32,
                            63, 63, 32, 63, 63, 32, 69, 66, 32, 49, 65>>,
  loopMaxDistanceFromModuleData |-> 50,
  loopSignature |-> <<56, 66, 32, 63, 63, 32, 63, 63, 32, 63, 63, 32, 63, 63,
                      32, 63, 63, 32, 56, 66, 32, 63, 63, 32, 50, 52, 32, 50,
                      48, 32, 56, 53, 32, 63, 63, 32, 55, 53, 32, 69, 50>> ]

\* "3? 80 00 2C 3? ?? 80 00 48 ?? ?? 08 E? ?? 02 30 7C ?? 00 00 41 82 ?? ??"
PPC_BE_sig == [
  moduleDataPtrHi |-> 2,
  moduleDataPtrLo |-> 6,
  signature |-> <<51, 63, 32, 56, 48, 32, 48, 48, 32, 50, 67, 32, 51, 63, 32,
                  63, 63, 32, 56, 48, 32, 48, 48, 32, 52, 56, 32, 63, 63, 32,
                  63, 63, 32, 48, 56, 32, 69, 63, 32, 63, 63, 32, 48, 50, 32,
                  51, 48, 32, 55, 67, 32, 63, 63, 32, 48, 48, 32, 48, 48, 32,
                  52, 49, 32, 56, 50, 32, 63, 63, 32, 63, 63>> ]

----------------------------------------------------------------------------
(* Hex-nibble pattern encoding *)

\* (len(signature) + 1) / 3
getPatternSize(sig) == (Len(sig) + 1) \div 3

\* getBits in byte arithmetic: 48 = '0', 57 = '9', 65 = 'A', 223 = 0xDF
getBits(x) ==
  IF x >= 48 /\ x <= 57
    THEN x - 48
    ELSE (BitAnd(x, 223) - 65 + 10) % 256

\* a '?' in the low nibble taken for a wildcard byte
byteMatchesLoWild(hiCh, loCh, datByt) ==
  LET sigHi0 == (getBits(hiCh) * 16) % 256
      sigLo0 == getBits(loCh)
      sigLo  == IF loCh = 63 THEN BitAnd(datByt, 15) ELSE sigLo0
      sigHi  == IF hiCh = 63 \/ loCh = 63 THEN BitAnd(datByt, 240) ELSE sigHi0
  IN  datByt = BitOr(sigHi, sigLo)

\* lines 77-90: one pattern byte (its two characters) against one data byte;
\* 63 = '?', 15 = 0xF, 240 = 0xF0
byteMatches(hiCh, loCh, datByt) ==
  LET sigHi0 == (getBits(hiCh) * 16) % 256
      sigLo0 == getBits(loCh)
      sigLo  == IF loCh = 63 THEN BitAnd(datByt, 15) ELSE sigLo0
      sigHi  == IF hiCh = 63 THEN BitAnd(datByt, 240) ELSE sigHi0
  IN  datByt = BitOr(sigHi, sigLo)

----------------------------------------------------------------------------
(* Pattern scanner: findPattern *)

\* the inner loop without the end-of-buffer test
loopCondNoBound(d, patternSize, start, sigIdx) == sigIdx < patternSize

\* line 75: the inner loop's condition
loopCond(d, patternSize, start, sigIdx) ==
  sigIdx < patternSize /\ start + sigIdx < Len(d)

\* an attempt cut short by the end of the buffer taken for a match
isMatchTruncated(sigIdx, patternSize) == sigIdx >= patternSize - 1

\* line 97: the attempt is a match
isMatch(sigIdx, patternSize) == sigIdx >= patternSize

\* the scan resumed behind a match
nextStartSkip(start, matched, patternSize) ==
  IF matched THEN start + patternSize ELSE start + 1

\* line 73: the next start offset of `for i := range data`
nextStart(start, matched, patternSize) == start + 1

\* only the first value of the callback appended
appendMatchesFirst(acc, out) == IF out = <<>> THEN acc ELSE Append(acc, out[1])

\* line 98: matches = append(matches, callback(i)...)
appendMatches(acc, out) == acc \o out

\* lines 76-94: the body of the inner loop at sigIdx: it goes on to the next
\* pattern byte, breaks on a mismatch, or panics on an index out of range
loopBody(d, sig, start, sigIdx) ==
  LET sigPatIdx == sigIdx * 3
  IN  IF sigPatIdx + 1 >= Len(sig) \/ start + sigIdx >= Len(d) THEN "panic"
      ELSE IF byteMatches(At(sig, sigPatIdx), At(sig, sigPatIdx + 1),
                          At(d, start + sigIdx))
             THEN "next"
             ELSE "break"

\* lines 74-95: the inner loop from sigIdx on; the sigIdx it stops at, and
\* whether it panicked
RECURSIVE matchLoop(_, _, _, _, _)
matchLoop(d, sig, patternSize, start, sigIdx) ==
  IF loopCond(d, patternSize, start, sigIdx) /\ loopBody(d, sig, start, sigIdx) = "next"
    THEN matchLoop(d, sig, patternSize, start, sigIdx + 1)
    ELSE [sigIdx |-> sigIdx,
          panic  |-> /\ loopCond(d, patternSize, start, sigIdx)
                     /\ loopBody(d, sig, start, sigIdx) = "panic"]

----------------------------------------------------------------------------
(* Address resolvers: the callbacks of findModuleInitPCHeader *)

NoMatches == [out |-> <<>>, panic |-> FALSE]
Panicked  == [out |-> <<>>, panic |-> TRUE]
Emit(va)  == [out |-> <<[moduleDataVA |-> va]>>, panic |-> FALSE]

\* Go's d[off:][:n], or a panic
CanSlice(d, off, n) == off + n <= Len(d)
Slice(d, off, n) == SubSeq(d, off + 1, off + n)

\* lines 108-123
x64Callback(d, base, sigPtr) ==
  LET off == sigPtr + x64sig.moduleDataPtrLoc
  IN  IF ~CanSlice(d, off, 4) THEN Panicked
      ELSE LET moduleDataPtrOffset == LittleEndianUint32(Slice(d, off, 4))
               moduleDataIpOffset  ==
                 Add64(U64(sigPtr), U64(x64sig.moduleDataPtrOffsetLoc))
           IN  Emit(Add64(Add64(moduleDataPtrOffset, moduleDataIpOffset), base))

\* the distance bound taken inclusive
x86LoopInRangeInclusive(sigPtr2) == sigPtr2 <= 50

\* line 128
x86LoopInRange(sigPtr2) == sigPtr2 < x86sig.loopMaxDistanceFromModuleData

\* lines 127-135: the inner callback; sigPtr is the outer match, sigPtr2 the
\* loop signature's offset in data[sigPtr:]
x86LoopCallback(d, sigPtr, sigPtr2) ==
  IF x86LoopInRange(sigPtr2)
    THEN LET off == sigPtr + x86sig.moduleDataPtrLoc
         IN  IF ~CanSlice(d, off, 4) THEN Panicked
             ELSE Emit(LittleEndianUint32(Slice(d, off, 4)))
    ELSE NoMatches

\* the low half zero-extended
ppcLoUnsigned(b) == Int64OfUint16(BigEndianUint16(b))

\* line 143: the low half, a signed immediate
ppcLo(b) == Int64OfInt16(BigEndianUint16(b))

\* the low half read two bytes early, where the pattern has wildcards
ppcCallbackLoAt4(d, sigPtr) ==
  LET offHi == sigPtr + 2
      offLo == sigPtr + 4
  IN  IF ~CanSlice(d, offHi, 2) \/ ~CanSlice(d, offLo, 2) THEN Panicked
      ELSE Emit(Add64(Shl16(Int64OfUint16(BigEndianUint16(Slice(d, offHi, 2)))),
                      Int64OfInt16(BigEndianUint16(Slice(d, offLo, 2)))))

\* lines 139-149
ppcCallback(d, sigPtr) ==
  LET offHi == sigPtr + PPC_BE_sig.moduleDataPtrHi
      offLo == sigPtr + PPC_BE_sig.moduleDataPtrLo
  IN  IF ~CanSlice(d, offHi, 2) \/ ~CanSlice(d, offLo, 2) THEN Panicked
      ELSE LET moduleDataPtrHi == Int64OfUint16(BigEndianUint16(Slice(d, offHi, 2)))
               moduleDataPtrLo == ppcLo(Slice(d, offLo, 2))
           IN  Emit(Add64(Shl16(moduleDataPtrHi), moduleDataPtrLo))

\* A callback is a closure: its kind and what it captured.
Closure(kind, d, base, outer) ==
  [kind |-> kind, data |-> d, sectionBase |-> base, outer |-> outer]

\* The callbacks that return at once: three of findModuleInitPCHeader, and
\* three plain ones that return one, no or two values for the offset. (The
\* outer callback of the x86 scan runs a scan of its own: see the actions.)
Callback(cl, sigPtr) ==
  CASE cl.kind = "x64"     -> x64Callback(cl.data, cl.sectionBase, sigPtr)
    [] cl.kind = "x86loop" -> x86LoopCallback(cl.data, cl.outer, sigPtr)
    [] cl.kind = "ppc"     -> ppcCallback(cl.data, sigPtr)
    [] cl.kind = "one"     -> Emit(U64(sigPtr))
    [] cl.kind = "none"    -> NoMatches
    [] cl.kind = "two"     ->
         [out |-> <<[moduleDataVA |-> U64(sigPtr)],
                    [moduleDataVA |-> U64(sigPtr + 256)]>>,
          panic |-> FALSE]

\* lines 74-97: the attempt at `start`: is it a match, did it panic
attempt(d, sig, start) ==
  LET patternSize == getPatternSize(sig)
      r == matchLoop(d, sig, patternSize, start, 0)
  IN  [matched |-> ~r.panic /\ isMatch(r.sigIdx, patternSize), panic |-> r.panic]

\* lines 74-99: one iteration of the outer loop at `start`, with a callback
\* that returns at once
findPatternIter(d, sig, cl, start) ==
  LET a == attempt(d, sig, start)
  IN  IF a.panic THEN [matched |-> FALSE, out |-> <<>>, panic |-> TRUE]
      ELSE IF a.matched
             THEN LET c == Callback(cl, start)
                  IN  [matched |-> TRUE, out |-> c.out, panic |-> c.panic]
             ELSE [matched |-> FALSE, out |-> <<>>, panic |-> FALSE]

----------------------------------------------------------------------------
(* findModuleInitPCHeader: the three scans, in order *)

\* lines 108, 126, 139: the pattern and the callback of each scan
ScanSignature(ph) ==
  CASE ph = "x64" -> x64sig.signature
    [] ph = "x86" -> x86sig.moduleDataSignature
    [] ph = "ppc" -> PPC_BE_sig.signature

\* lines 108-151: x64 scan, then x86 scan, then PPC BE scan, then return;
\* a lone call of findPattern ("scan") just returns
NextPhase(ph) ==
  CASE ph = "x64" -> "x86"
    [] ph = "x86" -> "ppc"
    [] OTHER      -> "done"

\* a scan's values put in front of the earlier scans'
collectInFront(acc, found) == found \o acc

\* lines 108, 126, 139: matches = append(matches, findPattern(...)...)
collect(acc, found) == acc \o found

Scanning == phase \in {"scan", "x64", "x86", "ppc"}

----------------------------------------------------------------------------
(* Inputs *)

\* longest buffer of a lone findPattern call
MaxLen == 4
\* most filler bytes put before the code in a section
MaxPad == 1
\* most bytes cut off the end of a section
MaxCut == 1
\* most filler bytes between the x86 load and the loop code behind it
MaxGap == 42

RECURSIVE SeqsUpTo(_, _)
SeqsUpTo(S, n) ==
  IF n = 0 THEN {<<>>}
  ELSE LET shorter == SeqsUpTo(S, n - 1)
       IN  shorter \cup {Append(q, x) : q \in {r \in shorter : Len(r) = n - 1}, x \in S}

\* AA, AB, 0A
ScanBytes == {170, 171, 10}

\* "AA AA", "A? AA", "?A", "??", "AB", "0A", "?B A?", "AA AA AA", "0? ?A"
ScanPatterns ==
  { <<65, 65, 32, 65, 65>>, <<65, 63, 32, 65, 65>>, <<63, 65>>, <<63, 63>>,
    <<65, 66>>, <<48, 65>>, <<63, 66, 32, 65, 63>>,
    <<65, 65, 32, 65, 65, 32, 65, 65>>, <<48, 63, 32, 63, 65>> }

ScanCallbacks == {"one", "none", "two"}

\* 0x90 filler
Pad(n) == [k \in 1..n |-> 144]

\* 48 8D b3 <disp> EB 0D 48 8B 89 30 02 00 00 66 0F 1F 44 00 00
X64Code(b3, disp) ==
  <<72, 141, b3>> \o disp \o
  <<235, 13, 72, 139, 137, 48, 2, 0, 0, 102, 15, 31, 68, 0, 0>>

\* 8F DA 26 00 | F0 FF FF FF | FF FF FF 7F | 00 00 00 80
Disps == {<<143, 218, 38, 0>>, <<240, 255, 255, 255>>,
          <<255, 255, 255, 127>>, <<0, 0, 0, 128>>}

\* 8D 05 <ptr> EB 1A
X86Load(ptr) == <<141, 5>> \o ptr \o <<235, 26>>

\* 8B 80 18 01 00 00 8B 54 24 20 85 C0 75 E2
X86Loop == <<139, 128, 24, 1, 0, 0, 139, 84, 36, 32, 133, 192, 117, 226>>

\* 60 49 6A 00 | FF FF FF FF
Ptrs == {<<96, 73, 106, 0>>, <<255, 255, 255, 255>>}

Gaps == {0} \cup ((MaxGap - 3)..MaxGap)

\* 3r 80 00 2C 38 84 80 00 48 00 00 08 E8 84 02 30 7C 24 00 00 41 82 01 A8
PPCCode(r) ==
  <<48 + r, 128, 0, 44, 56, 132, 128, 0, 72, 0, 0, 8, 232, 132, 2, 48,
    124, 36, 0, 0, 65, 130, 1, 168>>

Code64 == X64Code(13, <<143, 218, 38, 0>>)
Load86 == X86Load(<<96, 73, 106, 0>>)

Bodies ==
  {<<>>, Load86, X86Loop}
  \cup {X64Code(b3, d) : b3 \in {13, 5, 29}, d \in Disps}
  \cup {Code64 \o X64Code(5, <<240, 255, 255, 255>>)}
  \cup {X86Load(p) \o Pad(g) \o X86Loop : p \in Ptrs, g \in Gaps}
  \cup {Load86 \o X86Loop \o Pad(g) \o X86Loop : g \in {0, 13, 14, 30}}
  \cup {Load86 \o X86Loop \o X86Loop \o X86Loop}
  \cup {Load86 \o Load86 \o Pad(g) \o X86Loop : g \in {MaxGap - 9, MaxGap - 8}}
  \cup {PPCCode(r) : r \in {12, 15}}
  \cup {PPCCode(12) \o PPCCode(13)}
  \cup {Code64 \o Load86 \o X86Loop \o PPCCode(12),
        PPCCode(12) \o Load86 \o X86Loop \o Code64}

\* 0x00400000 and 0xFFFFFFFFFFFFFFF0
SectionBases == {<<0, 64, 0, 0>>, <<65520, 65535, 65535, 65535>>}

Sections ==
  {SubSeq(Pad(p) \o b, 1, Len(Pad(p) \o b) - c) :
     p \in 0..MaxPad, b \in Bodies, c \in 0..MaxCut}

----------------------------------------------------------------------------
(* The state machine *)

\* no nested scan is running
NoInner == <<>>

\* findModuleInitPCHeader(data, sectionBase) is called: line 105, then the
\* x64 scan starts (lines 71-72)
Init ==
  /\ data \in Sections
  /\ sectionBase \in SectionBases
  /\ phase = "x64"
  /\ signature = ScanSignature("x64")
  /\ cb = "x64"
  /\ i = 0
  /\ local = <<>>
  /\ inner = NoInner
  /\ matches = <<>>
  /\ calls = <<>>

\* findPattern(data, signature, callback) is called on its own
InitScan ==
  /\ data \in SeqsUpTo(ScanBytes, MaxLen)
  /\ sectionBase = U64(0)
  /\ phase = "scan"
  /\ signature \in ScanPatterns
  /\ cb \in ScanCallbacks
  /\ i = 0
  /\ local = <<>>
  /\ inner = NoInner
  /\ matches = <<>>
  /\ calls = <<>>

\* the buffer of the nested scan: data[sigPtr:], sigPtr the outer offset i
InnerData == SliceFrom(data, i)

\* lines 73-100: one iteration of findPattern's loop at offset i, the
\* callback (if the attempt matches) returning at once
FindPatternIter ==
  /\ Scanning
  /\ inner = NoInner
  /\ i < Len(data)
  /\ ~(cb = "x86" /\ attempt(data, signature, i).matched)
  /\ LET r == findPatternIter(data, signature, Closure(cb, data, sectionBase, 0), i)
     IN  IF r.panic
           THEN /\ phase' = "panic"
                /\ UNCHANGED <<i, local, calls>>
           ELSE /\ local' = appendMatches(local, r.out)
                /\ calls' = IF r.matched
                              THEN Append(calls, [scan |-> phase, at |-> i, out |-> r.out])
                              ELSE calls
                /\ i' = nextStart(i, r.matched, getPatternSize(signature))
                /\ phase' = phase
  /\ UNCHANGED <<data, sectionBase, signature, cb, inner, matches>>

\* lines 74-98 and 126-127: the x86 scan's attempt at i matches and its
\* callback starts findPattern(data[sigPtr:], loopSignature, ...): lines 71-72
X86CallbackEnter ==
  /\ Scanning
  /\ inner = NoInner
  /\ i < Len(data)
  /\ cb = "x86" /\ attempt(data, signature, i).matched
  /\ inner' = <<[i |-> 0, local |-> <<>>]>>
  /\ UNCHANGED <<data, sectionBase, signature, cb, phase, i, local, matches, calls>>

\* lines 73-100 in the nested scan: one iteration at offset inner.i of
\* data[sigPtr:], with the callback of lines 127-135
LoopPatternIter ==
  /\ Scanning
  /\ inner # NoInner
  /\ inner[1].i < Len(InnerData)
  /\ LET r == findPatternIter(InnerData, x86sig.loopSignature,
                              Closure("x86loop", data, sectionBase, i), inner[1].i)
     IN  IF r.panic
           THEN /\ phase' = "panic"
                /\ UNCHANGED inner
           ELSE /\ inner' = <<[i |-> nextStart(inner[1].i, r.matched,
                                               getPatternSize(x86sig.loopSignature)),
                               local |-> appendMatches(inner[1].local, r.out)]>>
                /\ phase' = phase
  /\ UNCHANGED <<data, sectionBase, signature, cb, i, local, matches, calls>>

\* line 101 in the nested scan: it returns, so the x86 callback returns, and
\* the outer loop appends what it got (line 98) and goes on
X86CallbackReturn ==
  /\ Scanning
  /\ inner # NoInner
  /\ inner[1].i >= Len(InnerData)
  /\ local' = appendMatches(local, inner[1].local)
  /\ calls' = Append(calls, [scan |-> phase, at |-> i, out |-> inner[1].local])
  /\ i' = nextStart(i, TRUE, getPatternSize(signature))
  /\ inner' = NoInner
  /\ UNCHANGED <<data, sectionBase, signature, cb, phase, matches>>

\* line 101, and the caller's append (lines 108, 126, 139); the next scan
\* starts, or findModuleInitPCHeader returns (line 151)
FindPatternReturn ==
  /\ Scanning
  /\ inner = NoInner
  /\ i >= Len(data)
  /\ matches' = collect(matches, local)
  /\ phase' = NextPhase(phase)
  /\ signature' = IF phase' = "done" THEN signature ELSE ScanSignature(phase')
  /\ cb' = IF phase' = "done" THEN cb ELSE phase'
  /\ i' = 0
  /\ local' = <<>>
  /\ UNCHANGED <<data, sectionBase, inner, calls>>

NextScan == FindPatternIter \/ FindPatternReturn

Next ==
  \/ FindPatternIter
  \/ X86CallbackEnter
  \/ LoopPatternIter
  \/ X86CallbackReturn
  \/ FindPatternReturn

Spec == Init /\ [][Next]_vars

SpecScan == InitScan /\ [][NextScan]_vars

----------------------------------------------------------------------------
(* What the specification says of a match, stated without the scanner *)

\* the value of a hex digit character '0'..'9', 'A'..'F'
HexVal(c) == IF c <= 57 THEN c - 48 ELSE c - 55

\* a pattern character against a nibble: '?' matches any value
NibbleOK(c, nib) == c = 63 \/ HexVal(c) = nib

\* the number of bytes of a well-formed pattern: text length = 3n - 1
PatternBytes(P) == (Len(P) + 1) \div 3

\* pattern P matches buffer D at offset j: all of it lies in D, and every
\* fixed nibble equals the data's nibble
MatchesAt(P, D, j) ==
  /\ j + PatternBytes(P) <= Len(D)
  /\ \A k \in 0..(PatternBytes(P) - 1) :
       /\ NibbleOK(P[3 * k + 1], D[j + k + 1] \div 16)
       /\ NibbleOK(P[3 * k + 2], D[j + k + 1] % 16)

MatchSet(P, D) == {j \in 0..(Len(D) - 1) : MatchesAt(P, D, j)}

HasWildcard(P) == \E k \in 1..Len(P) : P[k] = 63

\* the bytes a pattern without wildcards spells
LiteralBytes(P) ==
  [k \in 1..PatternBytes(P) |-> 16 * HexVal(P[3 * k - 2]) + HexVal(P[3 * k - 1])]

\* the offsets of the callback invocations of the scan `ph`, in order
CallsOf(ph) == SelectSeq(calls, LAMBDA c : c.scan = ph)
Offsets(cs) == [k \in 1..Len(cs) |-> cs[k].at]
OffsetSet(cs) == {cs[k].at : k \in 1..Len(cs)}

RECURSIVE Flatten(_)
Flatten(ss) == IF ss = <<>> THEN <<>> ELSE Head(ss) \o Flatten(Tail(ss))

Outs(cs) == Flatten([k \in 1..Len(cs) |-> cs[k].out])

RECURSIVE Ascending(_)
\* the elements of a finite set of numbers, smallest first
Ascending(S) ==
  IF S = {} THEN <<>>
  ELSE LET m == CHOOSE x \in S : \A y \in S : x <= y
       IN  <<m>> \o Ascending(S \ {m})

----------------------------------------------------------------------------
(* Claims about findPattern, checked under SpecScan *)

\* C1: the callback is invoked at offset j if and only if the whole pattern
\* lies inside the buffer at j and every non-wildcard nibble equals the
\* data's nibble; a pattern without wildcards is invoked exactly at the
\* literal occurrences of its bytes.
C1_MatchIffNibblesAgree ==
  Scanning =>
    /\ OffsetSet(calls) = {j \in 0..(i - 1) : MatchesAt(signature, data, j)}
    /\ ~HasWildcard(signature) =>
         OffsetSet(calls) =
           {j \in 0..(i - 1) :
              /\ j + PatternBytes(signature) <= Len(data)
              /\ SubSeq(data, j + 1, j + PatternBytes(signature))
                   = LiteralBytes(signature)}

\* "A? AA" over AB AA 0A AA: offset 0 matches through the wildcard nibble,
\* offset 2 fails on the fixed high nibble of the same pattern byte
C1_Witness ==
  /\ phase = "scan"
  /\ signature = <<65, 63, 32, 65, 65>>
  /\ data = <<171, 170, 10, 170>>
  /\ i = 4
  /\ Offsets(calls) = <<0>>

\* C2: every offset the callback is invoked at has the whole pattern inside
\* the buffer; a buffer shorter than the pattern gives no invocation and an
\* empty result.
C2_MatchInsideBuffer ==
  /\ \A k \in 1..Len(calls) :
       calls[k].at + PatternBytes(signature) <= Len(data)
  /\ Len(data) < PatternBytes(signature) =>
       (calls = <<>> /\ local = <<>> /\ matches = <<>>)

\* "AA AA AA" over AA AA: both attempts run into the end of the buffer with
\* every byte compared so far equal, and nothing is reported
C2_Witness ==
  /\ phase = "done"
  /\ signature = <<65, 65, 32, 65, 65, 32, 65, 65>>
  /\ data = <<170, 170>>
  /\ cb = "one"
  /\ calls = <<>>
  /\ matches = <<>>

\* C4: the callback is invoked once for each matching offset, overlapping
\* ones included, in strictly ascending order of offset, and the list
\* returned is the concatenation of the callbacks' lists in that order.
C4_AscendingOverlapping ==
  /\ \A a, b \in 1..Len(calls) : a < b => calls[a].at < calls[b].at
  /\ Scanning =>
       /\ Offsets(calls) =
            Ascending({j \in 0..(i - 1) : MatchesAt(signature, data, j)})
       /\ local = Outs(calls)
  /\ \A k \in 1..Len(calls) :
       calls[k].out = Callback(Closure(cb, data, sectionBase, 0), calls[k].at).out
  /\ phase = "done" =>
       /\ Offsets(calls) = Ascending(MatchSet(signature, data))
       /\ matches = Outs(calls)

\* "AA AA" over AA AA AA: the callback runs at 0 and then at 1
C4_Witness ==
  /\ phase = "done"
  /\ signature = <<65, 65, 32, 65, 65>>
  /\ data = <<170, 170, 170>>
  /\ cb = "two"
  /\ Offsets(calls) = <<0, 1>>
  /\ matches = <<[moduleDataVA |-> U64(0)], [moduleDataVA |-> U64(256)],
                 [moduleDataVA |-> U64(1)], [moduleDataVA |-> U64(257)]>>

----------------------------------------------------------------------------
(* Claims about findModuleInitPCHeader, checked under Spec *)

M64  == MatchSet(x64sig.signature, data)
M86  == MatchSet(x86sig.moduleDataSignature, data)
MPPC == MatchSet(PPC_BE_sig.signature, data)

\* the loop-pattern matches in D[m:] at a relative offset below 50
LoopHits(m) ==
  {m2 \in MatchSet(x86sig.loopSignature, SliceFrom(data, m)) : m2 < 50}

\* the four bytes at D[off..off+3], little-endian, zero- and sign-extended
ZeroExt32At(D, off) ==
  <<D[off + 1] + 256 * D[off + 2], D[off + 3] + 256 * D[off + 4], 0, 0>>
SignExt32At(D, off) ==
  LET s == IF D[off + 4] >= 128 THEN 65535 ELSE 0
  IN  <<D[off + 1] + 256 * D[off + 2], D[off + 3] + 256 * D[off + 4], s, s>>

\* a number v with -2^31 <= v < 2^31 as a signed 64-bit value, reinterpreted
\* as unsigned
IntToU64(v) ==
  IF v >= 0 THEN U64(v)
  ELSE LET w == (v + 2147483647) + 1
       IN  <<w % Limb, (w \div Limb) + 32768, 65535, 65535>>

\* the pattern bytes and the last byte (exclusive) a resolver reads, by scan
SigBytes(ph) == PatternBytes(ScanSignature(ph))
ReadEnd(ph) ==
  CASE ph = "x64" -> 3 + 4
    [] ph = "x86" -> 2 + 4
    [] ph = "ppc" -> 6 + 2

\* C3: no step reads or slices the buffer past its end, whatever its
\* length: the run never panics, and every resolver's operand bytes lie
\* inside the matched bytes, which lie inside the buffer.
C3_NoOutOfBounds ==
  /\ phase # "panic"
  /\ \A k \in 1..Len(calls) :
       /\ ReadEnd(calls[k].scan) <= SigBytes(calls[k].scan)
       /\ calls[k].at + SigBytes(calls[k].scan) <= Len(data)

\* all three resolvers have run, the last match ending with the buffer
C3_Witness ==
  /\ phase = "done"
  /\ data = Code64 \o Load86 \o X86Loop \o PPCCode(12)
  /\ Offsets(calls) = <<0, 22, 44>>
  /\ Len(matches) = 3

\* C5 (as claimed): the x64 value is (d + m + 7 + sectionBase) mod 2^64 with
\* d the 32-bit little-endian displacement at D[m+3..m+6] sign-extended.
C5_SignedDisplacement ==
  \A k \in 1..Len(calls) :
    calls[k].scan = "x64" =>
      calls[k].out =
        <<[moduleDataVA |->
             Add64(Add64(Add64(SignExt32At(data, calls[k].at + 3),
                               U64(calls[k].at)), U64(7)), sectionBase)]>>

\* what the x64 resolver computes: the displacement zero-extended
X64EmitsZeroExtended ==
  \A k \in 1..Len(calls) :
    calls[k].scan = "x64" =>
      calls[k].out =
        <<[moduleDataVA |->
             Add64(Add64(Add64(ZeroExt32At(data, calls[k].at + 3),
                               U64(calls[k].at)), U64(7)), sectionBase)]>>

\* C6: for a first-pattern match at m, one value is emitted for each
\* loop-pattern match at a relative offset m2 < 50 in D[m:] and none for
\* m2 >= 50; the value is the zero-extended little-endian pointer at
\* D[m+2..m+5], sectionBase not added.
C6_LoopWithinDistance ==
  \A k \in 1..Len(calls) :
    calls[k].scan = "x86" =>
      calls[k].out =
        [n \in 1..Cardinality(LoopHits(calls[k].at)) |->
           [moduleDataVA |-> ZeroExt32At(data, calls[k].at + 2)]]

\* the loop pattern 49 bytes behind the load of FF FF FF FF: accepted
C6_Witness ==
  /\ phase = "done"
  /\ data = X86Load(<<255, 255, 255, 255>>) \o Pad(41) \o X86Loop
  /\ MatchesAt(x86sig.loopSignature, data, 49)
  /\ matches = <<[moduleDataVA |-> <<65535, 65535, 0, 0>>]>>

\* C7: the PPC value is (hi << 16) + lo in signed 64-bit arithmetic, hi the
\* unsigned big-endian 16 bits at D[m+2..m+3], lo the big-endian 16 bits at
\* D[m+6..m+7] sign-extended; sectionBase is not added.
C7_HiShiftedPlusSignedLo ==
  \A k \in 1..Len(calls) :
    calls[k].scan = "ppc" =>
      LET m   == calls[k].at
          hi  == 256 * data[m + 3] + data[m + 4]
          raw == 256 * data[m + 7] + data[m + 8]
          lo  == IF raw >= 32768 THEN raw - 65536 ELSE raw
      IN  calls[k].out = <<[moduleDataVA |-> IntToU64(hi * 65536 + lo)]>>

C7_Witness ==
  /\ phase = "done"
  /\ data = Pad(1) \o PPCCode(12) \o PPCCode(13)
  /\ Offsets(CallsOf("ppc")) = <<1, 25>>
  /\ Len(matches) = 2

\* C8: the result is the x64 scan's values, then the x86 scan's, then the
\* PPC scan's, each in ascending order of match offset, nothing removed.
C8_ConcatenationInOrder ==
  /\ calls = CallsOf("x64") \o CallsOf("x86") \o CallsOf("ppc")
  /\ phase = "done" =>
       /\ Offsets(CallsOf("x64")) = Ascending(M64)
       /\ Offsets(CallsOf("x86")) = Ascending(M86)
       /\ Offsets(CallsOf("ppc")) = Ascending(MPPC)
       /\ matches = Outs(CallsOf("x64")) \o Outs(CallsOf("x86"))
                      \o Outs(CallsOf("ppc"))

\* the three idioms lie in the buffer in the opposite order
C8_Witness ==
  /\ phase = "done"
  /\ data = PPCCode(12) \o Load86 \o X86Loop \o Code64
  /\ sectionBase = <<0, 64, 0, 0>>
  /\ Offsets(calls) = <<46, 24, 0>>
  /\ matches = <<[moduleDataVA |-> <<56004, 102, 0, 0>>],
                 [moduleDataVA |-> <<18784, 106, 0, 0>>],
                 [moduleDataVA |-> <<32768, 43, 0, 0>>]>>

\* C9 (as claimed): one value per x64 match, one per x86 first-pattern match
\* that has a loop-pattern match below 50, one per PPC match.
C9_OnePerFirstMatch ==
  phase = "done" =>
    Len(matches) = Cardinality(M64)
                     + Cardinality({m \in M86 : LoopHits(m) # {}})
                     + Cardinality(MPPC)

\* C9 (amended): one value per x64 match, one per pair of an x86
\* first-pattern match m and a loop-pattern match below 50 in D[m:], one per
\* PPC match.
C9_OnePerLoopMatch ==
  phase = "done" =>
    Len(matches) = Cardinality(M64)
                     + Cardinality(UNION {{<<m, m2>> : m2 \in LoopHits(m)} : m \in M86})
                     + Cardinality(MPPC)

\* one load followed by three loop idioms within 50 bytes: three values
C9_Witness ==
  /\ phase = "done"
  /\ data = Load86 \o X86Loop \o X86Loop \o X86Loop
  /\ LoopHits(0) = {8, 22, 36}
  /\ Len(matches) = 3

\* C10: every value of the PPC scan is 0x2B8000, whatever the buffer, the
\* match offset and sectionBase.
C10_AlwaysSameConstant ==
  \A k \in 1..Len(calls) :
    calls[k].scan = "ppc" =>
      calls[k].out = <<[moduleDataVA |-> <<32768, 43, 0, 0>>]>>

C10_Witness ==
  /\ phase = "done"
  /\ data = Pad(1) \o PPCCode(15)
  /\ sectionBase = <<65520, 65535, 65535, 65535>>
  /\ matches = <<[moduleDataVA |-> <<32768, 43, 0, 0>>]>>

====
